---- MODULE Spec2Model ----
(***************************************************************************)
(* Connected components of a polygon mesh and their in-place removal       *)
(* (CGAL/Polygon_mesh_processing/connected_components.h), modelled over a  *)
(* halfedge data structure with integer descriptors.                       *)
(***************************************************************************)
EXTENDS Integers, Sequences, FiniteSets, TLC

VARIABLES
  pmesh,        \* the polygon mesh the operations work on
  pmesh0,       \* the mesh as it was when the running operation was called
  ecm,          \* edge_is_constrained_map: the set of constrained edges
  fcm,          \* the caller's face -> component id property map
  fcm0,         \* the caller's map when the running operation was called
  face_cc,      \* the operation's local vector_property_map face -> id
  keep_vertex,  \* the transient kept-vertex flags of keep_or_remove
  todo,         \* edges of the edge pass that are still to be visited
  pc,           \* position: "idle", "cc", "edges", "erase", "done"
  op,           \* the operation that runs or ran last
  arg,          \* its argument (k, threshold, id set, face set, seed face)
  ret,          \* its return value (number of components, or removed)
  num0,         \* the component count the operation computed (or -1)
  labelings,    \* number of runs of connected_components so far
  stack,        \* connected_component: the explicit stack
  already_processed, \* connected_component: the visited set
  out,          \* the output iterator: the faces connected_component
                \* emitted, or the meshes split_connected_components wrote
  index_maps,   \* split_connected_components: the index maps it works with,
                \* the maps the caller passed (np), the mesh type has (has)
  visited       \* the edges the edge pass has handled so far, in order

vars == <<pmesh, pmesh0, ecm, fcm, fcm0, face_cc, keep_vertex, todo, pc, op,
          arg, ret, num0, labelings, stack, already_processed, out,
          index_maps, visited>>

-----------------------------------------------------------------------------
(* Bounds of the model *)

NumMeshes == 6        \* meshes 1..NumMeshes of the catalogue are explored
MaxIsolated == 1      \* isolated vertices added to a catalogue mesh
MaxConstrained == 2   \* constrained edges in edge_is_constrained_map
MaxKeep == 3          \* nb_components_to_keep ranges over 0..MaxKeep
MaxThreshold == 3     \* threshold_components_to_keep ranges over 0..MaxThreshold
MaxRange == 1         \* size of a caller's range of ids or of faces
MaxConstrainedAnyOrder == 1  \* constrained edges where the edge order is free

-----------------------------------------------------------------------------
(* The mesh interface: descriptors are integers, an edge e is the pair of   *)
(* halfedges 2e and 2e+1.                                                   *)

null_face == 0 - 1
null_halfedge == 0 - 1

opposite(h) == IF h % 2 = 0 THEN h + 1 ELSE h - 1
edge(h) == h \div 2
halfedge_of_edge(e) == 2 * e

vertices(m) == DOMAIN m.vhe
faces(m) == DOMAIN m.fhe
halfedges(m) == DOMAIN m.nxt
edges(m) == {edge(h) : h \in halfedges(m)}

next(m, h) == m.nxt[h]
prev(m, h) == m.prv[h]
face(m, h) == m.fc[h]
target(m, h) == m.tgt[h]
source(m, h) == m.tgt[opposite(h)]
is_border(m, h) == m.fc[h] = null_face
is_border_edge(m, e) ==
  is_border(m, halfedge_of_edge(e)) \/ is_border(m, opposite(halfedge_of_edge(e)))

Restrict(f, S) == [x \in S |-> f[x]]

set_next(m, h, nh) ==
  [m EXCEPT !.nxt = [@ EXCEPT ![h] = nh], !.prv = [@ EXCEPT ![nh] = h]]
set_face(m, h, f) == [m EXCEPT !.fc = [@ EXCEPT ![h] = f]]
set_halfedge(m, v, h) == [m EXCEPT !.vhe = [@ EXCEPT ![v] = h]]
remove_edge(m, e) ==
  LET keepH == halfedges(m) \ {2 * e, 2 * e + 1}
  IN [m EXCEPT !.nxt = Restrict(@, keepH), !.prv = Restrict(@, keepH),
               !.fc = Restrict(@, keepH), !.tgt = Restrict(@, keepH)]
remove_face(m, f) == [m EXCEPT !.fhe = Restrict(@, faces(m) \ {f})]
remove_vertex(m, v) == [m EXCEPT !.vhe = Restrict(@, vertices(m) \ {v})]
clear(m) ==
  [tgt |-> <<>>, nxt |-> <<>>, prv |-> <<>>, fc |-> <<>>, vhe |-> <<>>, fhe |-> <<>>]

\* halfedges_around_face(h, m): h, next(h), next(next(h)), ... until h comes back
RECURSIVE WalkNext(_, _, _, _)
WalkNext(m, h0, h, acc) ==
  IF h \notin halfedges(m) \/ Len(acc) > Cardinality(halfedges(m)) THEN acc
  ELSE LET acc2 == Append(acc, h)
       IN IF next(m, h) = h0 THEN acc2 ELSE WalkNext(m, h0, next(m, h), acc2)

halfedges_around_face(m, h) == WalkNext(m, h, h, <<>>)

Range(s) == {s[i] : i \in DOMAIN s}

-----------------------------------------------------------------------------
(* Mesh construction (out of the scope of the component code): a halfedge   *)
(* structure from a list of faces given as vertex cycles, edges without a   *)
(* face (at most one at a vertex), plus isolated vertices.                  *)

MakeMesh(nv, iso, fs, free) ==
  LET Pos == UNION {{<<i, j>> : j \in 1..Len(fs[i])} : i \in 1..Len(fs)}
      Succ(p) == <<p[1], (p[2] % Len(fs[p[1]])) + 1>>
      Dart(p) == <<fs[p[1]][p[2]], fs[Succ(p)[1]][Succ(p)[2]]>>
      Darts == {Dart(p) : p \in Pos}
      Key(a, b) == IF a < b THEN a * nv + b ELSE b * nv + a
      FreeDarts == free \cup {<<d[2], d[1]>> : d \in free}
      Keys == {Key(d[1], d[2]) : d \in Darts \cup free}
      HOf(d) == 2 * Cardinality({x \in Keys : x < Key(d[1], d[2])})
                  + (IF d[1] < d[2] THEN 0 ELSE 1)
      AllDarts == Darts \cup {<<d[2], d[1]>> : d \in Darts} \cup FreeDarts
      Border == AllDarts \ Darts
      PosOf(d) == CHOOSE p \in Pos : Dart(p) = d
      OutOf(b, S) == {d2 \in S : d2[1] = b}
      NextDart(d) ==
        IF d \in Darts THEN Dart(Succ(PosOf(d)))
        ELSE IF d \in FreeDarts
        THEN (IF OutOf(d[2], Border \ FreeDarts) # {}
              THEN CHOOSE d2 \in OutOf(d[2], Border \ FreeDarts) : TRUE
              ELSE <<d[2], d[1]>>)
        ELSE (IF OutOf(d[2], FreeDarts) # {}
              THEN CHOOSE d2 \in OutOf(d[2], FreeDarts) : TRUE
              ELSE CHOOSE d2 \in OutOf(d[2], Border) : TRUE)
      DartOf(h) == CHOOSE d \in AllDarts : HOf(d) = h
      HS == {HOf(d) : d \in AllDarts}
  IN [tgt |-> [h \in HS |-> DartOf(h)[2]],
      nxt |-> [h \in HS |-> HOf(NextDart(DartOf(h)))],
      prv |-> [h \in HS |-> HOf(CHOOSE d \in AllDarts : NextDart(d) = DartOf(h))],
      fc  |-> [h \in HS |-> IF DartOf(h) \in Darts THEN PosOf(DartOf(h))[1] - 1
                            ELSE null_face],
      vhe |-> [v \in 0..(nv + iso - 1) |->
                 IF \E d \in AllDarts : d[2] = v
                 THEN HOf(CHOOSE d \in AllDarts :
                            /\ d[2] = v
                            /\ \A d2 \in AllDarts : d2[2] = v => HOf(d) <= HOf(d2))
                 ELSE null_halfedge],
      fhe |-> [f \in 0..(Len(fs) - 1) |-> HOf(Dart(<<f + 1, 1>>))]]

\* The catalogue: number of vertices on edges, faces as vertex cycles, and
\* the edges that have no face
Catalogue ==
  << <<0, <<>>, {}>>,                                     \* no face at all
     <<4, << <<0,1,2>>, <<0,2,3>> >>, {}>>,               \* a quad split in two
     <<7, << <<0,1,2>>, <<0,2,3>>, <<4,5,6>> >>, {}>>,    \* split quad and a triangle
     <<5, << <<0,1,2>>, <<0,2,3>>, <<0,3,4>>, <<0,4,1>> >>, {}>>, \* closed fan
     <<6, << <<0,1,2>>, <<2,1,3>>, <<2,3,4>>, <<4,3,5>> >>, {}>>, \* strip of 4
     \* two triangles joined by an edge without a face, and a free edge
     <<8, << <<0,1,2>>, <<3,4,5>> >>, {<<2,3>>, <<6,7>>}>>,
     <<4, << <<0,1,2>>, <<0,3,1>>, <<1,3,2>>, <<2,3,0>> >>, {}>>  \* tetrahedron
  >>

CatalogueMesh(i, iso) ==
  LET c == Catalogue[IF i <= Len(Catalogue) THEN i ELSE Len(Catalogue)]
  IN MakeMesh(c[1], iso, c[2], c[3])

-----------------------------------------------------------------------------
(* Labeling *)

\* (variant: the comparison reversed)
MoreSecond_reversed(a, b) == a[2] < b[2]

\* internal::MoreSecond: a sorts before b iff a's size is larger
MoreSecond(a, b) == a[2] > b[2]

\* (variant: the constraint map is not consulted)
No_border_ignoring_constraints(m, em, e) == ~is_border_edge(m, e)

\* internal::No_constraint is the empty set of constrained edges.
\* internal::No_border: the edges the filtered dual graph keeps
No_border(m, em, e) ==
  IF ~is_border_edge(m, e) THEN e \notin em ELSE FALSE

\* out-edges of face f in the filtered dual graph, as the faces they lead to
DualNeighbors(m, em, f) ==
  {face(m, opposite(h)) :
     h \in {g \in Range(halfedges_around_face(m, m.fhe[f])) : No_border(m, em, edge(g))}}

RECURSIVE DualReach(_, _, _)
DualReach(m, em, S) ==
  LET S2 == S \cup UNION {DualNeighbors(m, em, f) : f \in S}
  IN IF S2 = S THEN S ELSE DualReach(m, em, S2)

Min(S) == CHOOSE x \in S : \A y \in S : x <= y

\* boost::connected_components on the filtered dual: faces are scanned in
\* enumeration order, each face not yet labelled starts component c
RECURSIVE LabelFrom(_, _, _, _, _)
LabelFrom(m, em, unscanned, map, c) ==
  IF unscanned = {} THEN [map |-> map, num |-> c]
  ELSE LET f == Min(unscanned)
       IN IF f \in DOMAIN map
          THEN LabelFrom(m, em, unscanned \ {f}, map, c)
          ELSE LET comp == DualReach(m, em, {f})
               IN LabelFrom(m, em, unscanned \ {f},
                            [g \in DOMAIN map \cup comp |->
                               IF g \in comp THEN c ELSE map[g]],
                            c + 1)

connected_components(m, em) == LabelFrom(m, em, faces(m), <<>>, 0)

\* connected_component: the neighbours pushed while the halfedges around
\* face f are visited, in that order
\* (variant: the constraint map is not consulted)
Crosses_ignoring_constraints(m, em, hd) == face(m, opposite(hd)) # null_face

\* connected_component: the test that lets the traversal cross halfedge hd
Crosses(m, em, hd) ==
  IF edge(hd) \notin em THEN face(m, opposite(hd)) # null_face ELSE FALSE

\* (variant: the popped face always taken as new)
InsertedNew_always(seen, f) == TRUE

\* already_processed.insert(seed_face).second
InsertedNew(seen, f) == f \notin seen

RECURSIVE PushNeighbors(_, _, _, _, _)
PushNeighbors(m, em, hs, i, stk) ==
  IF i > Len(hs) THEN stk
  ELSE LET hd == hs[i]
           neighbor == face(m, opposite(hd))
       IN IF Crosses(m, em, hd)
          THEN PushNeighbors(m, em, hs, i + 1, Append(stk, neighbor))
          ELSE PushNeighbors(m, em, hs, i + 1, stk)

-----------------------------------------------------------------------------
(* Ranking *)

\* component_size: <<id, number of faces>> for id in 0..num-1, as a sequence
component_size(m, map, num) ==
  [i \in 1..num |-> <<i - 1, Cardinality({f \in faces(m) : map[f] = i - 1})>>]

\* std::sort with MoreSecond: any permutation no pair of which is out of order
SortedBy(cs) ==
  {s \in [1..Len(cs) -> Range(cs)] :
     /\ Range(s) = Range(cs)
     /\ \A i, j \in 1..Len(cs) : i < j => ~MoreSecond(s[j], s[i])}

\* (variant: the early return also taken when k equals the count)
LargestNothingToDo_at_least(num, k) == (num = 1) \/ (k >= num)

\* keep_largest_connected_components returns 0 early
LargestNothingToDo(num, k) == (num = 1) \/ (k > num)

\* (variant: the components counted after the mesh was cleared)
keep_largest_return_counted_late(num, k) ==
  IF k = 0 THEN 0
  ELSE IF LargestNothingToDo(num, k) THEN 0
  ELSE num - k

\* keep_largest_connected_components: the value it returns
keep_largest_return(num, k) ==
  IF k = 0 THEN num
  ELSE IF LargestNothingToDo(num, k) THEN 0
  ELSE num - k

\* (variant: a strict comparison with the threshold)
LargeSelected_strict(cs, threshold) ==
  {cs[i][1] : i \in {j \in 1..Len(cs) : cs[j][2] > threshold}}

\* keep_large_connected_components: the ids it keeps
LargeSelected(cs, threshold) ==
  {cs[i][1] : i \in {j \in 1..Len(cs) : cs[j][2] >= threshold}}

\* (variant: no test for an empty range)
RemoveNothingToDo_never(range) == FALSE

\* remove_connected_components returns at once
RemoveNothingToDo(range) == range = {}

-----------------------------------------------------------------------------
(* Excision: keep_or_remove_connected_components *)

\* (variant: the keep flag not consulted)
FaceTag_always_keep(cc_to_keep, id, keep) == IF id \in cc_to_keep THEN 1 ELSE 0

FaceTag(cc_to_keep, id, keep) ==
  IF id \in cc_to_keep THEN (IF keep THEN 1 ELSE 0) ELSE (IF keep THEN 0 ELSE 1)

TagFaces(m, map, comps, keep) ==
  [f \in DOMAIN map |-> IF f \in faces(m) THEN FaceTag(comps, map[f], keep) ELSE map[f]]

KeptVertices(m, map) ==
  [v \in vertices(m) |->
     \E f \in faces(m) :
        /\ map[f] = 1
        /\ \E h \in Range(halfedges_around_face(m, m.fhe[f])) : target(m, h) = v]

\* (variant: a border on the other side is enough)
Consistent_border_is_enough(m, map, h, oh) ==
  \/ is_border(m, oh)
  \/ (is_border(m, h) /\ map[face(m, oh)] # 0)
  \/ (~is_border(m, oh) /\ ~is_border(m, h) /\ map[face(m, h)] # 0
        /\ map[face(m, oh)] # 0)

\* the test "nothing to do because faces are already consistent"
Consistent(m, map, h, oh) ==
  \/ (is_border(m, oh) /\ map[face(m, h)] # 0)
  \/ (is_border(m, h) /\ map[face(m, oh)] # 0)
  \/ (~is_border(m, oh) /\ ~is_border(m, h) /\ map[face(m, h)] # 0
        /\ map[face(m, oh)] # 0)

\* (variant: the negation of the last test lost)
OnlyFirstKept_negation_lost(m, map, h, oh) ==
  ~is_border(m, h) /\ map[face(m, h)] # 0 /\ is_border(m, oh)

\* the test for a kept face at h and a removed face at oh
OnlyFirstKept(m, map, h, oh) ==
  ~is_border(m, h) /\ map[face(m, h)] # 0 /\ ~is_border(m, oh)
    /\ map[face(m, oh)] = 0

\* the test for a removed face at h and a kept face at oh
OnlySecondKept(m, map, h, oh) ==
  ~is_border(m, h) /\ map[face(m, h)] = 0 /\ ~is_border(m, oh)
    /\ map[face(m, oh)] # 0

\* CGAL_assertion of the branch "no face kept"
NoFaceKeptAssertion(m, map, h, oh) ==
  /\ (is_border(m, h) \/ map[face(m, h)] = 0)
  /\ (is_border(m, oh) \/ map[face(m, oh)] = 0)

\* which branch of the edge pass edge e takes
EdgeBranch(m, map, kv, e) ==
  LET h == halfedge_of_edge(e)
      oh == opposite(h)
      v == source(m, h)
      w == target(m, h)
  IN IF ~kv[v] /\ ~kv[w] THEN "none_kept"
     ELSE IF kv[v] /\ kv[w] THEN
       IF is_border(m, h) /\ is_border(m, oh) THEN "both_border"
       ELSE IF Consistent(m, map, h, oh) THEN "consistent"
       ELSE IF OnlyFirstKept(m, map, h, oh) THEN "border_oh"
       ELSE IF OnlySecondKept(m, map, h, oh) THEN "border_h"
       ELSE "no_face_kept"
     ELSE IF kv[v] THEN "only_v"
     ELSE "only_w"

\* get(fcm, f) as a truth value, where the map has an entry for f
Get(map, f) == IF f \in DOMAIN map THEN map[f] # 0 ELSE FALSE

\* the faces at which the branch conditions of edge e read the face map,
\* operands evaluated left to right and only as far as needed
FaceReads(m, map, kv, e) ==
  LET h == halfedge_of_edge(e)
      oh == opposite(h)
      v == source(m, h)
      w == target(m, h)
      fh == face(m, h)
      ofh == face(m, oh)
      bh == is_border(m, h)
      boh == is_border(m, oh)
      \* lines 498-500
      r1 == IF boh THEN {fh} ELSE {}
      t1 == boh /\ Get(map, fh)
      r2 == IF bh THEN {ofh} ELSE {}
      t2 == bh /\ Get(map, ofh)
      r3 == IF ~boh /\ ~bh THEN {fh} \cup (IF Get(map, fh) THEN {ofh} ELSE {}) ELSE {}
      t3 == ~boh /\ ~bh /\ Get(map, fh) /\ Get(map, ofh)
      consistent == r1 \cup (IF t1 THEN {} ELSE r2 \cup (IF t2 THEN {} ELSE r3))
      \* line 503
      r4 == IF ~bh THEN {fh} \cup (IF Get(map, fh) /\ ~boh THEN {ofh} ELSE {}) ELSE {}
      t4 == ~bh /\ Get(map, fh) /\ ~boh /\ ~Get(map, ofh)
      \* line 506
      r5 == IF ~bh THEN {fh} \cup (IF ~Get(map, fh) /\ ~boh THEN {ofh} ELSE {}) ELSE {}
      t5 == ~bh /\ ~Get(map, fh) /\ ~boh /\ Get(map, ofh)
      \* line 511
      r6 == (IF bh THEN {} ELSE {fh}) \cup
            (IF (bh \/ ~Get(map, fh)) /\ ~boh THEN {ofh} ELSE {})
  IN IF ~(kv[v] /\ kv[w]) THEN {}
     ELSE IF bh /\ boh THEN {}
     ELSE consistent \cup
          (IF t1 \/ t2 \/ t3 THEN {}
           ELSE r4 \cup (IF t4 THEN {} ELSE r5 \cup (IF t5 THEN {} ELSE r6)))

\* (variant: the face of the halfedge is left in place)
MakeBorder_skipped(m, h) == m

\* (variant: the halfedge on the other side is made border)
MakeBorder_other_side(m, h) == set_face(m, opposite(h), null_face)

\* set_face(h, null_face(), pmesh)
MakeBorder(m, h) == set_face(m, h, null_face)

\* (variant: the predecessor linked to the successor on the same side)
Shortcut_same_side(m, h, oh) == set_next(m, prev(m, h), next(m, h))

\* (variant: the predecessor linked one halfedge too far)
Shortcut_one_too_far(m, h, oh) == set_next(m, prev(m, h), next(m, next(m, oh)))

\* shortcut the next pointers: set_next(prev(h), next(oh))
Shortcut(m, h, oh) == set_next(m, prev(m, h), next(m, oh))

\* (variant: the halfedge of the vertex is left on the removed edge)
FixHalfedge_forgotten(m, v, old, new) == m

\* a vertex pointing to the edge must change its halfedge
FixHalfedge(m, v, old, new) == IF m.vhe[v] = old THEN set_halfedge(m, v, new) ELSE m

ProcessEdge(m, map, kv, e) ==
  LET h == halfedge_of_edge(e)
      oh == opposite(h)
      v == source(m, h)
      w == target(m, h)
      b == EdgeBranch(m, map, kv, e)
  IN CASE b = "none_kept" -> remove_edge(m, e)
       [] b = "both_border" -> m
       [] b = "consistent" -> m
       [] b = "border_oh" -> MakeBorder(m, oh)
       [] b = "border_h" -> MakeBorder(m, h)
       [] b = "no_face_kept" ->
            LET m1 == FixHalfedge(m, v, oh, prev(m, h))
                m2 == FixHalfedge(m1, w, h, prev(m1, oh))
                m3 == Shortcut(m2, h, oh)
                m4 == Shortcut(m3, oh, h)
            IN remove_edge(m4, e)
       [] b = "only_v" ->
            LET m1 == FixHalfedge(m, v, oh, prev(m, h))
                m2 == Shortcut(m1, h, oh)
            IN remove_edge(m2, e)
       [] b = "only_w" ->
            LET m1 == FixHalfedge(m, w, h, prev(m, oh))
                m2 == Shortcut(m1, oh, h)
            IN remove_edge(m2, e)

\* the edge loop over the edges es in the order of their descriptors
RECURSIVE EdgePass(_, _, _, _)
EdgePass(m, map, kv, es) ==
  IF es = {} THEN m
  ELSE EdgePass(ProcessEdge(m, map, kv, Min(es)), map, kv, es \ {Min(es)})

\* the removal loops at the end: faces not tagged 1, vertices not kept
EraseUnkept(m, map, kv) ==
  [m EXCEPT !.fhe = Restrict(@, {f \in faces(m) : map[f] = 1}),
            !.vhe = Restrict(@, {v \in vertices(m) : kv[v]})]

-----------------------------------------------------------------------------
(* Splitting: split_connected_components *)

\* position of x in the enumeration order of D
Rank(D, x) == Cardinality({y \in D : y < x})
Nth(D, j) == CHOOSE x \in D : Rank(D, x) = j

\* an index map that numbers D densely in enumeration order: the index
\* property of a mesh that has one, or a map the caller filled
DenseIndex(D) == [x \in D |-> Rank(D, x)]

\* get(dynamic_..._property_t<std::size_t>(), m): a new dynamic property
\* map, every entry still value-initialized
FreshDynamicMap(D) == [x \in D |-> 0]

\* get(t, m) for an index tag t
get(t, D) == IF t = "index" THEN DenseIndex(D) ELSE FreshDynamicMap(D)

\* the named parameter: a one-element tuple, empty for param_not_found
param_not_found == <<>>
get_param(passed, D) == IF passed THEN <<DenseIndex(D)>> ELSE param_not_found

\* FIM_def_tag, HIM_def_tag, VIM_def_tag
IM_def_tag(graph_has_property) == IF graph_has_property THEN "index" ELSE "dynamic"

\* internal::get_map: pair(map, need_init)
get_map(m, Default_tag, Dynamic_tag, D) ==
  IF m # param_not_found
  THEN [first |-> m[1], second |-> FALSE]
  ELSE [first |-> get(Default_tag, D), second |-> (Default_tag = Dynamic_tag)]

\* if(fim.second) { id = 0; for(f : faces(tm)) put(fim.first, f, id++); }
InitIndex(im, D) == IF im.second THEN [x \in D |-> Rank(D, x)] ELSE im.first

\* the depth-first search of boost::connected_components from the faces in
\* S; its colour map is an array indexed through the face index map, so a
\* face is new only if no face with its index was met
RECURSIVE IndexedReach(_, _, _, _, _)
IndexedReach(m, em, fim, S, colored) ==
  LET new == {g \in UNION {DualNeighbors(m, em, f) : f \in S} : fim[g] \notin colored}
  IN IF new = {} THEN [faces |-> S, colored |-> colored]
     ELSE LET g == Min(new)
          IN IndexedReach(m, em, fim, S \cup {g}, colored \cup {fim[g]})

RECURSIVE LabelIndexed(_, _, _, _, _, _, _)
LabelIndexed(m, em, fim, unscanned, map, colored, c) ==
  IF unscanned = {} THEN [map |-> map, num |-> c]
  ELSE LET f == Min(unscanned)
       IN IF fim[f] \in colored
          THEN LabelIndexed(m, em, fim, unscanned \ {f}, map, colored, c)
          ELSE LET r == IndexedReach(m, em, fim, {f}, colored \cup {fim[f]})
               IN LabelIndexed(m, em, fim, unscanned \ {f},
                               [g \in DOMAIN map |-> IF g \in r.faces THEN c ELSE map[g]],
                               r.colored, c + 1)

\* connected_components(tm, pidmap, face_index_map(fim)) into a new dynamic
\* map pidmap, whose entries start at 0
connected_components_fim(m, em, fim) ==
  LabelIndexed(m, em, fim, faces(m), [f \in faces(m) |-> 0], {}, 0)

\* Face_filtered_graph(tm, i, pidmap, index maps): the faces, halfedges and
\* vertices it lets through.  Selection is kept in bitsets addressed through
\* the index maps.
Face_filtered_graph(m, i, pidmap, im) ==
  LET patch == {f \in faces(m) : pidmap[f] = i}
      around == {h \in halfedges(m) : face(m, h) \in patch}
      selected_faces == {im.fim[f] : f \in patch}
      selected_halfedges == {im.him[h] : h \in around}
      selected_vertices == {im.vim[target(m, h)] : h \in around}
  IN [fs |-> {f \in faces(m) : im.fim[f] \in selected_faces},
      hs |-> {h \in halfedges(m) : \/ im.him[h] \in selected_halfedges
                                    \/ im.him[opposite(h)] \in selected_halfedges},
      vs |-> {v \in vertices(m) : im.vim[v] \in selected_vertices}]

\* next and prev in the filtered graph: on a halfedge without a selected
\* face, turn around the vertex to the next halfedge that is let through
RECURSIVE ViewNext(_, _, _)
ViewNext(m, hs, c) == IF c \in hs THEN c ELSE ViewNext(m, hs, next(m, opposite(c)))
RECURSIVE ViewPrev(_, _, _)
ViewPrev(m, hs, c) == IF c \in hs THEN c ELSE ViewPrev(m, hs, prev(m, opposite(c)))

\* copy_face_graph(filter_graph, new_graph): a new mesh with new descriptors,
\* numbered in the enumeration order of the filtered graph
copy_face_graph(m, view) ==
  LET es == {edge(h) : h \in view.hs}
      vs == view.vs \cup {target(m, h) : h \in view.hs}
      fs == view.fs
      newh(h) == 2 * Rank(es, edge(h)) + (h % 2)
      oldh(j) == 2 * Nth(es, j \div 2) + (j % 2)
      H == 0 .. (2 * Cardinality(es) - 1)
      entering(v) == {h \in view.hs : target(m, h) = v}
  IN [tgt |-> [j \in H |-> Rank(vs, target(m, oldh(j)))],
      nxt |-> [j \in H |-> newh(ViewNext(m, view.hs, next(m, oldh(j))))],
      prv |-> [j \in H |-> newh(ViewPrev(m, view.hs, prev(m, oldh(j))))],
      fc |-> [j \in H |-> IF face(m, oldh(j)) \in fs
                           THEN Rank(fs, face(m, oldh(j))) ELSE null_face],
      vhe |-> [j \in 0 .. (Cardinality(vs) - 1) |->
                 LET v == Nth(vs, j)
                 IN IF m.vhe[v] \in view.hs THEN newh(m.vhe[v])
                    ELSE IF entering(v) = {} THEN null_halfedge
                    ELSE newh(Min(entering(v)))],
      fhe |-> [j \in 0 .. (Cardinality(fs) - 1) |-> newh(m.fhe[Nth(fs, j)])]]

\* for(int i = 0; i < nb_patches; ++i): the patch ids, in order
PatchIds(nb_patches) == [i \in 1..nb_patches |-> i - 1]

\* internal::split_connected_components_impl: the index maps after their
\* initialization, the patch ids and the meshes written to out
split_connected_components_impl(fim, him, vim, tm) ==
  LET im == [fim |-> InitIndex(fim, faces(tm)),
             him |-> InitIndex(him, halfedges(tm)),
             vim |-> InitIndex(vim, vertices(tm))]
      r == connected_components_fim(tm, {}, im.fim)
      ids == PatchIds(r.num)
  IN [maps |-> im,
      pidmap |-> r.map,
      nb_patches |-> r.num,
      out |-> [i \in DOMAIN ids |->
                 copy_face_graph(tm, Face_filtered_graph(tm, ids[i], r.map, im))]]

\* split_connected_components(tm, out, np): np tells for faces, halfedges
\* and vertices whether the caller passed an index map, has whether the
\* mesh type has the index property
split_connected_components(tm, np, has) ==
  split_connected_components_impl(
    get_map(get_param(np.f, faces(tm)), "dynamic", IM_def_tag(has.f), faces(tm)),
    get_map(get_param(np.h, halfedges(tm)), "dynamic", IM_def_tag(has.h), halfedges(tm)),
    get_map(get_param(np.v, vertices(tm)), "dynamic", IM_def_tag(has.v), vertices(tm)),
    tm)

-----------------------------------------------------------------------------
(* Initial states: a catalogue mesh with some isolated vertices, some       *)
(* constrained edges, and a caller's face map that holds 0 everywhere.      *)

InitMeshes ==
  {CatalogueMesh(i, iso) : i \in 1..NumMeshes, iso \in 0..MaxIsolated}

SmallSubsets(S, n) == {T \in SUBSET S : Cardinality(T) <= n}

\* the edges the caller may mark constrained: those with a face on both
\* sides and, to have a constrained border edge too, the first border edge
ConstrainableEdges(m) ==
  LET inner == {e \in edges(m) : ~is_border_edge(m, e)}
      outer == edges(m) \ inner
  IN inner \cup (IF outer = {} THEN {} ELSE {CHOOSE e \in outer : \A x \in outer : e <= x})

Init ==
  /\ pmesh \in InitMeshes
  /\ pmesh0 = pmesh
  /\ ecm \in SmallSubsets(ConstrainableEdges(pmesh), MaxConstrained)
  /\ fcm = [f \in faces(pmesh) |-> 0]
  /\ fcm0 = fcm
  /\ face_cc = <<>>
  /\ keep_vertex = <<>>
  /\ todo = {}
  /\ pc = "idle"
  /\ op = "none"
  /\ arg = {}
  /\ ret = 0 - 1
  /\ num0 = 0 - 1
  /\ labelings = 0
  /\ stack = <<>>
  /\ already_processed = {}
  /\ out = <<>>
  /\ index_maps = [fim |-> <<>>, him |-> <<>>, vim |-> <<>>,
                   np |-> [f |-> FALSE, h |-> FALSE, v |-> FALSE],
                   has |-> [f |-> FALSE, h |-> FALSE, v |-> FALSE]]
  /\ visited = <<>>

LocalMapOps == {"keep_largest", "keep_large", "keep_faces", "remove_faces"}

\* the face map keep_or_remove_connected_components was handed
CurMap == IF op \in LocalMapOps THEN face_cc ELSE fcm

Call(name, a) ==
  /\ pc = "idle"
  /\ op' = name
  /\ arg' = a
  /\ pmesh0' = pmesh
  /\ fcm0' = fcm
  /\ UNCHANGED <<ecm, stack, already_processed, out, index_maps, visited>>

\* the start of keep_or_remove_connected_components up to the edge loop
BeginExcision(map, comps, keep, local) ==
  LET tagged == TagFaces(pmesh, map, comps, keep)
  IN /\ IF local THEN face_cc' = tagged /\ fcm' = fcm
                 ELSE fcm' = tagged /\ face_cc' = face_cc
     /\ keep_vertex' = KeptVertices(pmesh, tagged)
     /\ todo' = edges(pmesh)
     /\ pc' = "edges"
     /\ pmesh' = pmesh

ReturnAtOnce ==
  /\ pc' = "done"
  /\ UNCHANGED <<pmesh, fcm, keep_vertex, todo>>

-----------------------------------------------------------------------------
(* connected_component(seed_face, pmesh, out, np) *)

ConnectedComponentCall(seed) ==
  /\ pc = "idle"
  /\ op' = "connected_component"
  /\ arg' = {seed}
  /\ pc' = "cc"
  /\ stack' = <<seed>>
  /\ already_processed' = {}
  /\ out' = <<>>
  /\ pmesh0' = pmesh
  /\ fcm0' = fcm
  /\ UNCHANGED <<pmesh, ecm, fcm, face_cc, keep_vertex, todo, ret, num0, labelings,
                 index_maps, visited>>

\* one iteration of the while loop; the loop ends when the stack is empty
ConnectedComponentStep ==
  /\ pc = "cc"
  /\ stack # <<>>
  /\ LET seed_face == stack[Len(stack)]
         popped == SubSeq(stack, 1, Len(stack) - 1)
         fresh == InsertedNew(already_processed, seed_face)
         stack2 == IF ~fresh THEN popped
                   ELSE PushNeighbors(pmesh, ecm,
                          halfedges_around_face(pmesh, pmesh.fhe[seed_face]), 1, popped)
     IN /\ stack' = stack2
        /\ IF ~fresh
           THEN UNCHANGED <<already_processed, out>>
           ELSE /\ already_processed' = already_processed \cup {seed_face}
                /\ out' = Append(out, seed_face)
        /\ pc' = IF stack2 = <<>> THEN "done" ELSE "cc"
  /\ UNCHANGED <<pmesh, pmesh0, ecm, fcm, fcm0, face_cc, keep_vertex, todo, op,
                 arg, ret, num0, labelings, index_maps, visited>>

-----------------------------------------------------------------------------
(* connected_components(pmesh, fcm, np) *)

ConnectedComponents ==
  /\ labelings = 0
  /\ Call("connected_components", {})
  /\ LET r == connected_components(pmesh, ecm)
     IN /\ fcm' = r.map
        /\ ret' = r.num
        /\ num0' = r.num
  /\ labelings' = labelings + 1
  /\ pc' = "idle"
  /\ UNCHANGED <<pmesh, face_cc, keep_vertex, todo>>

-----------------------------------------------------------------------------
(* keep_largest_connected_components(pmesh, nb_components_to_keep, np) *)

KeepLargest(nb_components_to_keep) ==
  /\ Call("keep_largest", {nb_components_to_keep})
  /\ labelings' = labelings + 1
  /\ LET r == connected_components(pmesh, ecm)
         num == r.num
     IN /\ num0' = num
        /\ ret' = keep_largest_return(num, nb_components_to_keep)
        /\ IF nb_components_to_keep = 0
           THEN /\ pmesh' = clear(pmesh)
                /\ face_cc' = r.map
                /\ pc' = "done"
                /\ UNCHANGED <<fcm, keep_vertex, todo>>
           ELSE IF LargestNothingToDo(num, nb_components_to_keep)
           THEN /\ face_cc' = r.map
                /\ ReturnAtOnce
           ELSE \E s \in SortedBy(component_size(pmesh, r.map, num)) :
                  BeginExcision(r.map,
                    {s[i][1] : i \in 1..nb_components_to_keep}, TRUE, TRUE)

(* keep_large_connected_components(pmesh, threshold_components_to_keep, np) *)

KeepLarge(threshold_components_to_keep) ==
  /\ Call("keep_large", {threshold_components_to_keep})
  /\ labelings' = labelings + 1
  /\ LET r == connected_components(pmesh, ecm)
         cc_to_keep == LargeSelected(component_size(pmesh, r.map, r.num),
                                     threshold_components_to_keep)
     IN /\ num0' = r.num
        /\ BeginExcision(r.map, cc_to_keep, TRUE, TRUE)
        /\ ret' = r.num - Cardinality(cc_to_keep)

(* keep_connected_components(pmesh, components_to_keep, fcm, np) *)

KeepIds(components_to_keep) ==
  /\ Call("keep_ids", components_to_keep)
  /\ BeginExcision(fcm, components_to_keep, TRUE, FALSE)
  /\ UNCHANGED <<ret, num0, labelings>>

(* remove_connected_components(pmesh, components_to_remove, fcm, np) *)

RemoveIds(components_to_remove) ==
  /\ Call("remove_ids", components_to_remove)
  /\ IF RemoveNothingToDo(components_to_remove)
     THEN ReturnAtOnce /\ face_cc' = face_cc
     ELSE BeginExcision(fcm, components_to_remove, FALSE, FALSE)
  /\ UNCHANGED <<ret, num0, labelings>>

(* keep_connected_components(pmesh, components_to_keep (faces), np) *)

KeepFaces(components_to_keep) ==
  /\ Call("keep_faces", components_to_keep)
  /\ labelings' = labelings + 1
  /\ LET r == connected_components(pmesh, ecm)
     IN /\ num0' = r.num
        /\ BeginExcision(r.map, {r.map[f] : f \in components_to_keep}, TRUE, TRUE)
  /\ UNCHANGED ret

(* remove_connected_components(pmesh, components_to_remove (faces), np) *)

RemoveFaces(components_to_remove) ==
  /\ Call("remove_faces", components_to_remove)
  /\ IF RemoveNothingToDo(components_to_remove)
     THEN ReturnAtOnce /\ UNCHANGED <<face_cc, num0, labelings>>
     ELSE LET r == connected_components(pmesh, ecm)
              cc_to_remove == {r.map[f] : f \in components_to_remove}
          IN /\ num0' = r.num
             /\ labelings' = labelings + 1
             /\ IF RemoveNothingToDo(cc_to_remove)
                THEN ReturnAtOnce /\ face_cc' = r.map
                ELSE BeginExcision(r.map, cc_to_remove, FALSE, TRUE)
  /\ UNCHANGED ret

-----------------------------------------------------------------------------
(* split_connected_components(tm, out, np) *)

IndexChoices == [f : BOOLEAN, h : BOOLEAN, v : BOOLEAN]

SplitConnectedComponents(np, has) ==
  /\ pc = "idle"
  /\ op' = "split"
  /\ arg' = {}
  /\ pmesh0' = pmesh
  /\ fcm0' = fcm
  /\ LET r == split_connected_components(pmesh, np, has)
     IN /\ index_maps' = [fim |-> r.maps.fim, him |-> r.maps.him, vim |-> r.maps.vim,
                          np |-> np, has |-> has]
        /\ out' = r.out
        /\ num0' = r.nb_patches
  /\ pc' = "done"
  /\ UNCHANGED <<pmesh, ecm, fcm, face_cc, keep_vertex, todo, ret, labelings,
                 stack, already_processed, visited>>

-----------------------------------------------------------------------------
(* keep_or_remove_connected_components: the edge loop and the removal loops *)

\* the body of the edge loop for edge e
HandleEdge(e) ==
  /\ pc = "edges"
  /\ e \in todo
  /\ pmesh' = ProcessEdge(pmesh, CurMap, keep_vertex, e)
  /\ todo' = todo \ {e}
  /\ UNCHANGED <<pmesh0, ecm, fcm, fcm0, face_cc, keep_vertex, pc, op, arg, ret,
                 num0, labelings, stack, already_processed, out, index_maps>>

EdgeStep(e) ==
  /\ HandleEdge(e)
  /\ visited' = Append(visited, e)

Erase ==
  /\ pc = "edges"
  /\ todo = {}
  /\ pmesh' = EraseUnkept(pmesh, CurMap, keep_vertex)
  /\ pc' = "done"
  /\ UNCHANGED <<pmesh0, ecm, fcm, fcm0, face_cc, keep_vertex, todo, op, arg, ret,
                 num0, labelings, stack, already_processed, out, index_maps,
                 visited>>

-----------------------------------------------------------------------------

IdRanges == SmallSubsets(0..2, MaxRange)
FaceRanges == SmallSubsets(faces(pmesh), MaxRange)

\* edges(pmesh) enumerates the edges in the order of their descriptors
NextEdge == IF todo = {} THEN {} ELSE {Min(todo)}

Next ==
  \/ \E seed \in faces(pmesh) : ConnectedComponentCall(seed)
  \/ ConnectedComponentStep
  \/ ConnectedComponents
  \/ \E k \in 0..MaxKeep : KeepLargest(k)
  \/ \E t \in 0..MaxThreshold : KeepLarge(t)
  \/ \E ids \in IdRanges : KeepIds(ids)
  \/ \E ids \in IdRanges : RemoveIds(ids)
  \/ \E fr \in FaceRanges : KeepFaces(fr)
  \/ \E fr \in FaceRanges : RemoveFaces(fr)
  \/ \E e \in NextEdge : EdgeStep(e)
  \/ Erase

Spec == Init /\ [][Next]_vars

\* split_connected_components alone, for every choice of the index maps
\* the caller passes and of the index properties the mesh type has
SplitNext ==
  \E np \in IndexChoices : \E has \in IndexChoices :
     SplitConnectedComponents(np, has)

SplitSpec == Init /\ [][SplitNext]_vars

\* the excision with the edges enumerated in any order
AnyOrderInit ==
  /\ Init
  /\ pmesh \in {CatalogueMesh(i, 0) : i \in 1..NumMeshes}
  /\ Cardinality(ecm) <= MaxConstrainedAnyOrder

AnyOrderEdgeStep(e) ==
  /\ HandleEdge(e)
  /\ UNCHANGED visited

AnyOrderNext ==
  \/ \E fr \in FaceRanges : KeepFaces(fr)
  \/ \E fr \in FaceRanges : RemoveFaces(fr)
  \/ \E e \in todo : AnyOrderEdgeStep(e)
  \/ Erase

AnyOrderSpec == AnyOrderInit /\ [][AnyOrderNext]_vars

\* connected_component alone; its while loop keeps running once entered
TraversalNext ==
  \/ \E seed \in faces(pmesh) : ConnectedComponentCall(seed)
  \/ ConnectedComponentStep

TraversalSpec ==
  Init /\ [][TraversalNext]_vars /\ WF_vars(ConnectedComponentStep)

-----------------------------------------------------------------------------
(* Vocabulary of the properties, defined on the mesh fields themselves and  *)
(* independently of the operators above.                                    *)

\* f and g lie on the two sides of an edge that is neither border nor constrained
Adjacent(m, em, f, g) ==
  \E h \in halfedges(m) :
     /\ m.fc[h] = f
     /\ m.fc[opposite(h)] = g
     /\ f # null_face
     /\ g # null_face
     /\ edge(h) \notin em

RECURSIVE ReachableFrom(_, _, _)
ReachableFrom(m, em, S) ==
  LET S2 == S \cup {g \in faces(m) : \E f \in S : Adjacent(m, em, f, g)}
  IN IF S2 = S THEN S ELSE ReachableFrom(m, em, S2)

\* the connected components of m, as sets of faces
Components(m, em) == {ReachableFrom(m, em, {f}) : f \in faces(m)}

\* the sum over the given ids of the number of faces that map sends to the id
RECURSIVE SumSizes(_, _)
SumSizes(map, ids) ==
  IF ids = {} THEN 0
  ELSE LET i == CHOOSE y \in ids : TRUE
       IN Cardinality({f \in DOMAIN map : map[f] = i}) + SumSizes(map, ids \ {i})

\* the vertices on the boundary of some face of m
OnSomeFace(m) ==
  {m.tgt[h] : h \in {g \in halfedges(m) : m.fc[g] \in faces(m)}}

KeepRemoveOps ==
  {"keep_largest", "keep_large", "keep_ids", "remove_ids", "keep_faces", "remove_faces"}

Returned(name) == pc = "done" /\ op = name

TheArg == CHOOSE a \in arg : TRUE

\* the incoming halfedges of the vertex that h points to, in rotation order
RECURSIVE WalkRing(_, _, _, _)
WalkRing(m, h0, h, acc) ==
  IF Len(acc) > Cardinality(halfedges(m)) THEN acc
  ELSE LET acc2 == Append(acc, h)
           g == opposite(m.nxt[h])
       IN IF g = h0 THEN acc2 ELSE WalkRing(m, h0, g, acc2)

\* the faces of K around the vertex that h0 points to form at most one fan
OneFan(m, K, h0) ==
  LET ring == WalkRing(m, h0, h0, <<>>)
      n == Len(ring)
      In(i) == m.fc[ring[i]] \in K
  IN Cardinality({i \in 1..n : In(i) /\ ~In((i % n) + 1)}) <= 1

\* keeping only the faces K of m leaves every vertex manifold
ManifoldRemoval(m, K) == \A h \in halfedges(m) : OneFan(m, K, h)

\* the mesh invariants of a halfedge structure
LinksValid(m) ==
  \A h \in halfedges(m) :
     /\ opposite(h) \in halfedges(m)
     /\ opposite(opposite(h)) = h
     /\ m.nxt[h] \in halfedges(m)
     /\ m.prv[h] \in halfedges(m)
     /\ m.prv[m.nxt[h]] = h
     /\ m.nxt[m.prv[h]] = h

FaceCyclesValid(m) ==
  \A f \in faces(m) :
     LET cyc == halfedges_around_face(m, m.fhe[f])
     IN /\ cyc # <<>>
        /\ m.nxt[cyc[Len(cyc)]] = m.fhe[f]
        /\ Range(cyc) = {h \in halfedges(m) : m.fc[h] = f}

BorderCyclesValid(m) ==
  \A h \in halfedges(m) :
     m.fc[h] = null_face =>
       LET cyc == halfedges_around_face(m, h)
       IN /\ m.nxt[cyc[Len(cyc)]] = h
          /\ \A g \in Range(cyc) : g \in halfedges(m) /\ m.fc[g] = null_face

MeshValid(m) == LinksValid(m) /\ FaceCyclesValid(m) /\ BorderCyclesValid(m)

NoDangling(m) ==
  /\ \A v \in vertices(m) : v \in OnSomeFace(m)
  /\ \A h \in halfedges(m) :
        /\ opposite(h) \in halfedges(m)
        /\ m.nxt[h] \in halfedges(m)
        /\ m.prv[h] \in halfedges(m)
        /\ (m.fc[h] = null_face \/ m.fc[h] \in faces(m))
        /\ m.tgt[h] \in vertices(m)

\* every mesh the operations start from is valid, every vertex of it manifold
InputValid == MeshValid(pmesh0) /\ ManifoldRemoval(pmesh0, faces(pmesh0))

-----------------------------------------------------------------------------
(* Properties *)

\* C1: when connected_component(seed, M) returns, the faces it has output
\* are exactly the faces reachable from the seed by crossing edges that are
\* neither border nor constrained: the seed, every such face, nothing else.
C1_ComponentIsReachableSet ==
  Returned("connected_component") =>
    /\ TheArg \in Range(out)
    /\ Range(out) = ReachableFrom(pmesh, ecm, {TheArg})

\* C1 witness: a traversal returned several faces and stopped at a
\* constrained edge with a face on its far side.
C1_Witness ==
  /\ Returned("connected_component")
  /\ Cardinality(Range(out)) >= 2
  /\ \E h \in halfedges(pmesh) :
        /\ edge(h) \in ecm
        /\ pmesh.fc[h] \in Range(out)
        /\ pmesh.fc[opposite(h)] \in faces(pmesh) \ Range(out)

LabelingReturned == pc = "idle" /\ op = "connected_components"

\* C2: connected_components(M, fcm) gives every face exactly one id, the ids
\* used are exactly 0..count-1 for the returned count, two faces share an id
\* iff they are connected through edges that are neither border nor
\* constrained, and the per-id face counts add up to the number of faces.
C2_LabelingIsPartition ==
  LabelingReturned =>
    /\ DOMAIN fcm = faces(pmesh)
    /\ {fcm[f] : f \in faces(pmesh)} = 0..(ret - 1)
    /\ \A f, g \in faces(pmesh) :
          (fcm[f] = fcm[g]) <=> (g \in ReachableFrom(pmesh, ecm, {f}))
    /\ SumSizes(fcm, 0..(ret - 1)) = Cardinality(faces(pmesh))

\* C2 witness: a labeling found several components, two of them on the two
\* sides of a constrained edge.
C2_Witness ==
  /\ LabelingReturned
  /\ ret >= 2
  /\ \E h \in halfedges(pmesh) :
        /\ edge(h) \in ecm
        /\ pmesh.fc[h] \in faces(pmesh)
        /\ pmesh.fc[opposite(h)] \in faces(pmesh)
        /\ fcm[pmesh.fc[h]] # fcm[pmesh.fc[opposite(h)]]

\* C3: keep_largest_connected_components(M, 0) leaves no vertex, no edge and
\* no face, and returns the number of components M had before the call.
C3_KeepZeroClears ==
  (Returned("keep_largest") /\ TheArg = 0) =>
    /\ vertices(pmesh) = {}
    /\ halfedges(pmesh) = {}
    /\ faces(pmesh) = {}
    /\ ret = Cardinality(Components(pmesh0, ecm))

\* C3 witness: the call emptied a mesh that had several components and an
\* isolated vertex.
C3_Witness ==
  /\ Returned("keep_largest")
  /\ TheArg = 0
  /\ ret >= 2
  /\ vertices(pmesh0) \ OnSomeFace(pmesh0) # {}
  /\ pmesh = clear(pmesh0)

\* the halfedges of m both of whose endpoints lie on some face
BetweenFaceVertices(m) ==
  {h \in halfedges(m) :
     m.tgt[h] \in OnSomeFace(m) /\ m.tgt[opposite(h)] \in OnSomeFace(m)}

\* m2 is m1 without the vertices on no face and without the edges that have
\* an endpoint on no face; faces and what bounds them are as in m1
OnlyFacelessRemoved(m1, m2) ==
  /\ m2.fhe = m1.fhe
  /\ vertices(m2) = OnSomeFace(m1)
  /\ halfedges(m2) = BetweenFaceVertices(m1)
  /\ \A h \in halfedges(m2) :
        /\ m2.fc[h] = m1.fc[h]
        /\ m2.tgt[h] = m1.tgt[h]
        /\ m1.fc[h] # null_face => m2.nxt[h] = m1.nxt[h] /\ m2.prv[h] = m1.prv[h]

KeptComponents == {C \in Components(pmesh0, ecm) : C \subseteq faces(pmesh)}
RemovedComponents == {C \in Components(pmesh0, ecm) : C \cap faces(pmesh) = {}}

\* C5: keep_largest_connected_components(M, k) with 0 < k < count keeps
\* exactly k components and removes the other count - k, returns count - k,
\* and no removed component has more faces than a kept one.
C5_KeepsKLargest ==
  (Returned("keep_largest") /\ 0 < TheArg /\ TheArg < num0) =>
    /\ num0 = Cardinality(Components(pmesh0, ecm))
    /\ KeptComponents \cup RemovedComponents = Components(pmesh0, ecm)
    /\ faces(pmesh) = UNION KeptComponents
    /\ Cardinality(KeptComponents) = TheArg
    /\ Cardinality(RemovedComponents) = num0 - TheArg
    /\ ret = num0 - TheArg
    /\ \A A \in KeptComponents : \A B \in RemovedComponents :
          Cardinality(A) >= Cardinality(B)

\* C5 witness: a kept component is strictly larger than a removed one.
C5_Witness ==
  /\ Returned("keep_largest")
  /\ 0 < TheArg
  /\ TheArg < num0
  /\ \E A \in KeptComponents : \E B \in RemovedComponents :
        Cardinality(A) > Cardinality(B)

LargeComponents(t) == {C \in Components(pmesh0, ecm) : Cardinality(C) >= t}

\* C6: keep_large_connected_components(M, threshold) keeps exactly the
\* components with at least threshold faces and returns count minus the
\* number kept; threshold 0 or 1 keeps every face, a threshold above every
\* component size removes every face and returns count.
C6_KeepsLargeEnough ==
  Returned("keep_large") =>
    /\ num0 = Cardinality(Components(pmesh0, ecm))
    /\ faces(pmesh) = UNION LargeComponents(TheArg)
    /\ ret = num0 - Cardinality(LargeComponents(TheArg))
    /\ TheArg <= 1 => faces(pmesh) = faces(pmesh0) /\ ret = 0
    /\ (\A C \in Components(pmesh0, ecm) : Cardinality(C) < TheArg) =>
          faces(pmesh) = {} /\ ret = num0

\* C6 witness: a component with exactly threshold faces was kept while a
\* smaller one was removed.
C6_Witness ==
  /\ Returned("keep_large")
  /\ \E A \in KeptComponents : Cardinality(A) = TheArg
  /\ RemovedComponents # {}
  /\ ret = Cardinality(RemovedComponents)

KeepRemoveReturned == pc = "done" /\ op \in KeepRemoveOps

\* the removal the operation made satisfies the manifoldness precondition
RemovalIsManifold == ManifoldRemoval(pmesh0, faces(pmesh))

\* C7: after any keep/remove operation on a valid mesh whose removal leaves
\* every vertex manifold there is no dangling reference: every surviving
\* vertex is on a surviving face, and every surviving halfedge has surviving
\* opposite, next, prev and target, and a face that is null or survives.
C7_NoDangling ==
  (KeepRemoveReturned /\ RemovalIsManifold) => NoDangling(pmesh)

\* C8: after keep_largest, keep_large, keep or remove_connected_components
\* returns, no vertex of the mesh is isolated (on the boundary of no face).
C8_NoIsolatedVertex ==
  KeepRemoveReturned => vertices(pmesh) \subseteq OnSomeFace(pmesh)

C10_InvariantsPreserved ==
  (KeepRemoveReturned /\ MeshValid(pmesh0) /\ RemovalIsManifold) => MeshValid(pmesh)

\* C10 witness: an excision whose removal is manifold relinked the next
\* pointer of a surviving halfedge and left faces in the mesh.
C10_Witness ==
  /\ KeepRemoveReturned
  /\ RemovalIsManifold
  /\ faces(pmesh) # {}
  /\ faces(pmesh) # faces(pmesh0)
  /\ \E h \in halfedges(pmesh) : pmesh.nxt[h] # pmesh0.nxt[h]
  /\ MeshValid(pmesh)

\* the vertices whose halfedge the operation reassigned
Reassigned == {v \in vertices(pmesh) : pmesh.vhe[v] # pmesh0.vhe[v]}

\* C11 as claimed: after a keep/remove operation the halfedge of a surviving
\* vertex is a surviving halfedge that leaves the vertex (the target of its
\* opposite is that vertex), in particular where the operation reassigned
\* the halfedge of the vertex because its edge was removed.
C11_AsClaimed ==
  KeepRemoveReturned =>
    \A v \in Reassigned :
       /\ pmesh.vhe[v] \in halfedges(pmesh)
       /\ target(pmesh, opposite(pmesh.vhe[v])) = v

\* C11: after a keep/remove operation the halfedge of every surviving vertex
\* is a surviving halfedge whose target is that vertex (it enters the
\* vertex), also where the halfedge of the vertex was reassigned because its
\* edge was removed; only a vertex on no edge, which holds null_halfedge
\* from the start, still holds null_halfedge.
C11_VertexHalfedgeEnters ==
  KeepRemoveReturned =>
    \A v \in vertices(pmesh) :
       \/ pmesh.vhe[v] \in halfedges(pmesh) /\ target(pmesh, pmesh.vhe[v]) = v
       \/ /\ pmesh.vhe[v] = null_halfedge
          /\ pmesh0.vhe[v] = null_halfedge
          /\ v \notin OnSomeFace(pmesh)

\* C11 witness: the halfedge of a surviving vertex was reassigned, and the
\* new one survives and enters the vertex.
C11_Witness ==
  /\ KeepRemoveReturned
  /\ \E v \in Reassigned :
        /\ pmesh0.vhe[v] \notin halfedges(pmesh)
        /\ pmesh.vhe[v] \in halfedges(pmesh)
        /\ target(pmesh, pmesh.vhe[v]) = v

\* an index map that can be used: defined on D, injective, onto 0..|D|-1
Usable(map, D) ==
  /\ DOMAIN map = D
  /\ \A x, y \in D : map[x] = map[y] => x = y
  /\ {map[x] : x \in D} = 0 .. (Cardinality(D) - 1)

\* the vertex cycles of the faces F of mesh m, the vertices on those faces
\* numbered in their order
NormalCycles(m, F) ==
  LET cyc(f) == halfedges_around_face(m, m.fhe[f])
      V == UNION {{target(m, h) : h \in Range(cyc(f))} : f \in F}
  IN {[k \in DOMAIN cyc(f) |-> Rank(V, target(m, cyc(f)[k]))] : f \in F}

\* the number of faces of the meshes of a sequence, added up
RECURSIVE FaceCount(_)
FaceCount(ms) ==
  IF ms = <<>> THEN 0 ELSE Cardinality(faces(Head(ms))) + FaceCount(Tail(ms))

\* the faces connected_components labels i on the input mesh
Labeled(i) == {f \in faces(pmesh0) : connected_components(pmesh0, {}).map[f] = i}

\* C12: split_connected_components writes exactly count meshes, one for
\* each connected component in the order of the ids; the i-th holds copies
\* of exactly the faces labeled i, so the face counts of the outputs add up
\* to the face count of M; M itself is not modified.
C12_OneMeshPerComponent ==
  Returned("split") =>
    /\ Len(out) = Cardinality(Components(pmesh0, {}))
    /\ \A i \in 1..Len(out) :
          /\ Cardinality(faces(out[i])) = Cardinality(Labeled(i - 1))
          /\ NormalCycles(out[i], faces(out[i])) = NormalCycles(pmesh0, Labeled(i - 1))
    /\ FaceCount(out) = Cardinality(faces(pmesh0))
    /\ pmesh = pmesh0

\* C13: in split_connected_components the index maps of faces, halfedges
\* and vertices handed to the labeling and to the filtered view are usable:
\* injective and onto 0..n-1, none of them used without initialization.
C13_IndexMapsUsable ==
  Returned("split") =>
    /\ Usable(index_maps.fim, faces(pmesh))
    /\ Usable(index_maps.him, halfedges(pmesh))
    /\ Usable(index_maps.vim, vertices(pmesh))

\* keep_or_remove_connected_components ran on the caller's ids and map
ExcisedByIds == pc = "done" /\ (op = "keep_ids" \/ (op = "remove_ids" /\ arg # {}))

\* the face is tagged kept: its id is in the set when keep is true, not in
\* it when keep is false
TaggedKept(f) == IF op = "keep_ids" THEN fcm0[f] \in arg ELSE fcm0[f] \notin arg

\* C14: in keep_or_remove_connected_components a face survives iff it is
\* tagged kept, and a vertex survives iff it is the target of a halfedge of
\* some kept face; every other face and vertex is erased.
C14_SurvivorsAreTheKept ==
  ExcisedByIds =>
    /\ faces(pmesh) = {f \in faces(pmesh0) : TaggedKept(f)}
    /\ vertices(pmesh) =
         {v \in vertices(pmesh0) :
            \E h \in halfedges(pmesh0) :
               /\ face(pmesh0, h) # null_face
               /\ TaggedKept(face(pmesh0, h))
               /\ target(pmesh0, h) = v}

\* C14 witness: a removal by ids erased a face and a vertex and left a face
\* and a vertex.
C14_Witness ==
  /\ ExcisedByIds
  /\ op = "remove_ids"
  /\ faces(pmesh) # {}
  /\ faces(pmesh) # faces(pmesh0)
  /\ \E v \in vertices(pmesh0) \ vertices(pmesh) : v \in OnSomeFace(pmesh0)
  /\ \E f \in faces(pmesh0) \ faces(pmesh) : fcm0[f] \in arg

\* the edge pass is about to handle edge e
Handling(e) == pc = "edges" /\ e \in NextEdge

\* the face at halfedge h is a kept face
KeptSide(m, map, h) == ~is_border(m, h) /\ map[face(m, h)] # 0

\* the cases of the edge pass that apply to edge e, each told by the kept
\* endpoints and the kept faces alone
CasesOf(m, map, kv, e) ==
  LET h == halfedge_of_edge(e)
      oh == opposite(h)
      kv_v == kv[source(m, h)]
      kv_w == kv[target(m, h)]
      bh == is_border(m, h)
      boh == is_border(m, oh)
      kh == KeptSide(m, map, h)
      koh == KeptSide(m, map, oh)
  IN {c \in {"none_kept", "both_border", "consistent", "border_oh", "border_h",
             "no_face_kept", "only_v", "only_w"} :
        \/ c = "none_kept" /\ ~kv_v /\ ~kv_w
        \/ c = "both_border" /\ kv_v /\ kv_w /\ bh /\ boh
        \/ c = "consistent" /\ kv_v /\ kv_w /\ ~(bh /\ boh) /\ (bh \/ kh) /\ (boh \/ koh)
        \/ c = "border_oh" /\ kv_v /\ kv_w /\ kh /\ ~boh /\ ~koh
        \/ c = "border_h" /\ kv_v /\ kv_w /\ koh /\ ~bh /\ ~kh
        \/ c = "no_face_kept" /\ kv_v /\ kv_w /\ ~(bh /\ boh) /\ ~kh /\ ~koh
        \/ c = "only_v" /\ kv_v /\ ~kv_w
        \/ c = "only_w" /\ ~kv_v /\ kv_w}

\* C15: the edge pass handles every edge of the input exactly once, and for
\* each edge exactly one of the cases applies (neither endpoint kept; both
\* kept, with both sides border, already consistent, one kept side or no
\* kept side; only the source kept; only the target kept), which is the
\* branch taken.
C15_EveryEdgeOnceOneCase ==
  /\ pc = "edges" =>
       /\ \A i, j \in 1..Len(visited) : visited[i] = visited[j] => i = j
       /\ Range(visited) \cap todo = {}
       /\ Range(visited) \cup todo = edges(pmesh0)
  /\ (KeepRemoveReturned /\ visited # <<>>) => Range(visited) = edges(pmesh0)
  /\ \A e \in edges(pmesh0) :
       Handling(e) =>
         CasesOf(pmesh, CurMap, keep_vertex, e) = {EdgeBranch(pmesh, CurMap, keep_vertex, e)}

\* C15 witness: the pass has handled edges and is about to handle one with
\* both endpoints kept and no kept side.
C15_Witness ==
  /\ pc = "edges"
  /\ visited # <<>>
  /\ \E e \in NextEdge : EdgeBranch(pmesh, CurMap, keep_vertex, e) = "no_face_kept"

\* C17: on every run from a valid mesh the two assertions of the edge pass
\* hold where they are reached (in the branch "no face kept" each side is
\* border or has a removed face; in the last branch the target is kept),
\* and no branch condition reads the face map at the null face.
C17_AssertionsHold ==
  \A e \in edges(pmesh0) :
     (Handling(e) /\ MeshValid(pmesh0)) =>
       LET h == halfedge_of_edge(e)
           b == EdgeBranch(pmesh, CurMap, keep_vertex, e)
       IN /\ b = "no_face_kept" => NoFaceKeptAssertion(pmesh, CurMap, h, opposite(h))
          /\ b = "only_w" => keep_vertex[target(pmesh, h)]
          /\ null_face \notin FaceReads(pmesh, CurMap, keep_vertex, e)

\* C17 witness: the pass is about to handle an edge with both endpoints kept,
\* a border on one side and a removed face on the other: the conditions
\* read the face map and the first assertion is reached.
C17_Witness ==
  /\ MeshValid(pmesh0)
  /\ \E e \in edges(pmesh0) :
        /\ Handling(e)
        /\ EdgeBranch(pmesh, CurMap, keep_vertex, e) = "no_face_kept"
        /\ is_border_edge(pmesh, e)
        /\ FaceReads(pmesh, CurMap, keep_vertex, e) # {}

\* keep_or_remove_connected_components has finished its edge pass
EdgePassDone ==
  \/ pc = "edges" /\ todo = {}
  \/ KeepRemoveReturned /\ Len(visited) = Cardinality(edges(pmesh0)) /\ visited # <<>>

\* C16: after the edge pass an edge of the input survives iff both its
\* endpoints are kept and at least one of its sides has a kept face or both
\* sides were border in the input; on a surviving edge with a kept face on
\* exactly one side the halfedge of the other side is border and the one of
\* the kept side still has its kept face.
C16_SurvivingEdges ==
  EdgePassDone =>
    \A e \in edges(pmesh0) :
       LET h == halfedge_of_edge(e)
           oh == opposite(h)
           kh == KeptSide(pmesh0, CurMap, h)
           koh == KeptSide(pmesh0, CurMap, oh)
       IN /\ e \in edges(pmesh) <=>
               /\ keep_vertex[source(pmesh0, h)]
               /\ keep_vertex[target(pmesh0, h)]
               /\ kh \/ koh \/ (is_border(pmesh0, h) /\ is_border(pmesh0, oh))
          /\ (e \in edges(pmesh) /\ kh /\ ~koh) =>
               face(pmesh, oh) = null_face /\ face(pmesh, h) = face(pmesh0, h)
          /\ (e \in edges(pmesh) /\ koh /\ ~kh) =>
               face(pmesh, h) = null_face /\ face(pmesh, oh) = face(pmesh0, oh)

\* C16 witness: after the edge pass an edge with a kept face on one side
\* and a removed face on the other survives with a border on that side, and
\* an edge between two kept vertices is gone.
C16_Witness ==
  /\ EdgePassDone
  /\ \E e \in edges(pmesh) :
        /\ KeptSide(pmesh0, CurMap, halfedge_of_edge(e))
        /\ ~is_border(pmesh0, opposite(halfedge_of_edge(e)))
        /\ is_border(pmesh, opposite(halfedge_of_edge(e)))
  /\ \E e \in edges(pmesh0) \ edges(pmesh) :
        /\ keep_vertex[source(pmesh0, halfedge_of_edge(e))]
        /\ keep_vertex[target(pmesh0, halfedge_of_edge(e))]

\* C18: the traversal of connected_component with its explicit stack
\* terminates on every finite mesh and emits each face of the component
\* exactly once, although a face may be on the stack several times: a
\* popped face that was visited already is dropped, neither emitted nor
\* expanded.
C18_TraversalTerminates ==
  /\ [](op = "connected_component" =>
          /\ \A i, j \in 1..Len(out) : out[i] = out[j] => i = j
          /\ Range(out) = already_processed
          /\ Range(out) \subseteq ReachableFrom(pmesh, ecm, arg))
  /\ [][(pc = "cc" /\ stack[Len(stack)] \in already_processed) =>
          /\ out' = out
          /\ already_processed' = already_processed
          /\ stack' = SubSeq(stack, 1, Len(stack) - 1)]_vars
  /\ (pc = "cc") ~> (Returned("connected_component") /\ stack = <<>>
                       /\ Range(out) = ReachableFrom(pmesh, ecm, arg))

\* C18 witness: the traversal has emitted faces and the stack holds a face
\* twice, one of them already visited.
C18_Witness ==
  /\ pc = "cc"
  /\ out # <<>>
  /\ \E i, j \in 1..Len(stack) :
        i # j /\ stack[i] = stack[j] /\ stack[i] \in already_processed

\* the halfedges of the input on the boundary of a kept face
OnKeptFace == {h \in halfedges(pmesh0) : KeptSide(pmesh0, CurMap, h)}

\* C19: the excision leaves the kept faces untouched: every halfedge of a
\* kept face survives with the next, prev, target and face it had, so the
\* boundary cycle of every kept face is the same sequence of halfedges as
\* before; only halfedges whose face was a removed face or the null face
\* have their next, prev or face changed.
C19_KeptFacesUntouched ==
  EdgePassDone =>
    /\ \A h \in OnKeptFace :
          /\ h \in halfedges(pmesh)
          /\ next(pmesh, h) = next(pmesh0, h)
          /\ prev(pmesh, h) = prev(pmesh0, h)
          /\ target(pmesh, h) = target(pmesh0, h)
          /\ face(pmesh, h) = face(pmesh0, h)
    /\ \A f \in faces(pmesh0) :
          CurMap[f] # 0 =>
            /\ pmesh.fhe[f] = pmesh0.fhe[f]
            /\ halfedges_around_face(pmesh, pmesh.fhe[f]) =
                 halfedges_around_face(pmesh0, pmesh0.fhe[f])
    /\ \A h \in halfedges(pmesh) :
          (\/ next(pmesh, h) # next(pmesh0, h)
           \/ prev(pmesh, h) # prev(pmesh0, h)
           \/ face(pmesh, h) # face(pmesh0, h)) => h \notin OnKeptFace

\* C19 witness: after the edge pass a kept face has a halfedge whose
\* opposite lost its face, and a surviving halfedge off the kept faces was
\* relinked.
C19_Witness ==
  /\ EdgePassDone
  /\ \E h \in OnKeptFace :
        /\ face(pmesh0, opposite(h)) # null_face
        /\ face(pmesh, opposite(h)) = null_face
  /\ \E h \in halfedges(pmesh) \ OnKeptFace : next(pmesh, h) # next(pmesh0, h)

\* what the claim compares: the surviving vertices, edges and faces and the
\* next, prev and face of the surviving halfedges
Outcome(m) ==
  [vs |-> vertices(m), es |-> edges(m), fs |-> faces(m),
   nxt |-> m.nxt, prv |-> m.prv, fc |-> m.fc]

KeptFaces == {f \in faces(pmesh0) : CurMap[f] # 0}

\* the mesh the excision yields with the edges in enumeration order
InOrder ==
  LET m == EdgePass(pmesh0, CurMap, keep_vertex, edges(pmesh0))
  IN IF pc = "done" THEN EraseUnkept(m, CurMap, keep_vertex) ELSE m

AnyOrderPassDone ==
  \/ pc = "edges" /\ todo = {}
  \/ pc = "done" /\ todo = {} /\ DOMAIN keep_vertex = vertices(pmesh0)
       /\ DOMAIN CurMap = faces(pmesh0)

\* C20: for a fixed valid input mesh and a kept set that satisfies the
\* manifoldness precondition, the result of the edge pass does not depend
\* on the order in which the edges are enumerated: every order yields the
\* same surviving vertices, edges and faces and the same next, prev and
\* face of every surviving halfedge.
C20_OrderIndependent ==
  (AnyOrderPassDone /\ MeshValid(pmesh0) /\ ManifoldRemoval(pmesh0, KeptFaces)) =>
     Outcome(pmesh) = Outcome(InOrder)

\* C20 witness: a pass over the edges in some order has finished on a valid
\* mesh with a manifold removal; it removed edges between kept vertices,
\* relinked surviving halfedges and left faces.
C20_Witness ==
  /\ AnyOrderPassDone
  /\ MeshValid(pmesh0)
  /\ ManifoldRemoval(pmesh0, KeptFaces)
  /\ KeptFaces # {}
  /\ Cardinality(edges(pmesh0) \ edges(pmesh)) >= 2
  /\ \E h \in halfedges(pmesh) : next(pmesh, h) # next(pmesh0, h)
  /\ Outcome(pmesh) = Outcome(InOrder)

====
